---- MODULE Spec2Model ----
(***************************************************************************)
(* Model of src/summarizer.py: the chunked summarization service.          *)
(*                                                                         *)
(* Threads: the pre-warm thread (line 313), the main thread that runs the  *)
(* request loop (lines 317-332) and, inside one request, the tasks of the  *)
(* ThreadPoolExecutor (line 278).  Shared state: model_lock, summarizer,   *)
(* tokenizer (lines 47-49).                                                *)
(*                                                                         *)
(* The external collaborators (model loading, the tokenizer, the inference *)
(* pipeline) are opaque: each call of one of them is a nondeterministic    *)
(* choice over the outcomes it can produce.  Time is abstracted: a sleep   *)
(* is a step that may be taken at any later moment, and the wait of        *)
(* future.result(timeout=90) may time out whenever the future is pending.  *)
(***************************************************************************)
EXTENDS Integers, Sequences, FiniteSets, TLC

\* ------------------------------------------------------------------ bounds
\* Number of setup runs of initialize_summarizer before the model stops
\* starting new ones (each run that fails leaves the next call to run again).
MaxSetups == 2
\* Longest sentence list given to the chunker in SpecChunker.
MaxSentences == 4
\* Largest chunk token length given to the length planner in SpecLength.
MaxTokenLen == 800
\* Number of threads that call summarize_text concurrently in SpecCallers.
NCallers == 3

\* ------------------------------------------------------- program constants
max_tokens == 500
min_text_length == 50
init_max_retries == 3
init_retry_delay == 5
chunk_max_retries == 3
chunk_retry_delay == 10
max_workers == 2

\* ---------------------------------------------------------------- helpers
Min(a, b) == IF a < b THEN a ELSE b
Max(a, b) == IF a > b THEN a ELSE b

RECURSIVE SumToks(_, _)
\* Sum of the token lengths of the sentences (positions in s) of chunk c.
SumToks(s, c) == IF c = <<>> THEN 0 ELSE s[Head(c)] + SumToks(s, Tail(c))

\* ---------------------------------------------------------- length planner
\* int(n * 0.35) in IEEE double arithmetic, as CPython computes it: the floor
\* of 35n/100, except where the double product falls just below the integer.
FloatLow035 == {180, 340, 360, 660, 680, 700, 720, 1300, 1320, 1340, 1360,
                1380, 1400, 1420, 1440, 1460}
IntTimes035_Nearest(n) == (35 * n + 50) \div 100
IntTimes035(n) == IF n \in FloatLow035 THEN (35 * n) \div 100 - 1
                  ELSE (35 * n) \div 100
\* int(t * 0.6): exact for every t in 0..250.
IntTimes06(t) == (6 * t) \div 10

TargetLength(text_length) ==
    Min(text_length - 1, Max(30, Min(250, IntTimes035(text_length))))

calculate_summary_length(text_length) ==
    LET target_length == TargetLength(text_length)
        min_length == Max(20, IntTimes06(target_length))
    IN  [target_length |-> target_length, min_length |-> min_length]

\* ----------------------------------------------------------------- chunker
\* A text is modelled by its list of sentences after the split of line 153;
\* a sentence is its token count (tokenizer, line 165), 0 standing for a
\* blank sentence, which line 161 skips before it is tokenized.  A chunk is
\* the sequence of the positions of its sentences in that list.
IsBlank_SkipsShort(sentence) == sentence <= 1
IsBlank(sentence) == sentence = 0

StartsNewChunk_CheckBeforeAdd(current_length, sentence_length, current_chunk) ==
    current_length > max_tokens /\ current_chunk # <<>>
StartsNewChunk(current_length, sentence_length, current_chunk) ==
    current_length + sentence_length > max_tokens /\ current_chunk # <<>>

RECURSIVE PackFrom(_, _, _, _, _)
PackFrom(sentences, k, chunks, current_chunk, current_length) ==
    IF k > Len(sentences)
    THEN IF current_chunk # <<>> THEN Append(chunks, current_chunk) ELSE chunks
    ELSE IF IsBlank(sentences[k])
    THEN PackFrom(sentences, k + 1, chunks, current_chunk, current_length)
    ELSE LET sentence_length == sentences[k]
         IN  IF StartsNewChunk(current_length, sentence_length, current_chunk)
             THEN PackFrom(sentences, k + 1, Append(chunks, current_chunk),
                           <<k>>, sentence_length)
             ELSE PackFrom(sentences, k + 1, chunks,
                           Append(current_chunk, k),
                           current_length + sentence_length)

\* raised: ValueError of line 147 (blank text) or 182 (no chunk).
split_text_into_chunks(sentences) ==
    LET chunks == PackFrom(sentences, 1, <<>>, <<>>, 0)
    IN  IF \A k \in 1..Len(sentences) : IsBlank(sentences[k])
        THEN [raised |-> TRUE, chunks |-> <<>>]
        ELSE [raised |-> chunks = <<>>, chunks |-> chunks]

\* ------------------------------------------------------------------ state
VARIABLES
    model_lock,     \* line 47: "free" or the thread that holds the lock
    summarizer,     \* line 48: 0 is None, k > 0 the pipeline built by setup run k
    tokenizer,      \* line 49: FALSE is None
    pc,             \* position of the pre-warm thread and of the main thread
    attempt,        \* initialize_summarizer: loop variable of line 96, per thread
    retry_delay,    \* initialize_summarizer: line 95/130, per thread
    config,         \* initialize_summarizer: the local of lines 72/86, per thread
    caller,         \* where the main thread's call of initialize_summarizer returns to
    text,           \* the argument of the current summarize_text call
    chunks,         \* line 270
    tpc,            \* per chunk task: queued, ready, infer, sleep, done
    tattempt,       \* process_chunk: loop variable of line 202, per task
    tdelay,         \* process_chunk: retry_delay of lines 198/252, per task
    terrs,          \* per task: the exceptions of its failed attempts, in order
    future,         \* line 279: the state of each task's future
    cur,            \* line 280: position of the collecting loop
    summaries,      \* line 276
    chunk_errors,   \* line 277
    result,         \* what summarize_text returned
    setups,         \* number of setup runs begun (line 55 found None)
    exhausted,      \* number of setup runs whose three attempts all failed
    ran,            \* main thread: its current call of initialize_summarizer began a setup run
    initres,        \* main thread: how its current call of initialize_summarizer ended
    waited,         \* main thread: its current call found model_lock held
    chunked,        \* the current request has invoked split_text_into_chunks
    cin, cout,      \* SpecChunker: input and output of split_text_into_chunks
    lin, lout,      \* SpecLength: input and output of calculate_summary_length
    rpc, rtext      \* SpecCallers: position and argument of each concurrent call

globals == <<model_lock, summarizer, tokenizer>>
initvars == <<pc, attempt, retry_delay, config, caller, setups, exhausted, ran,
              initres, waited>>
reqvars == <<text, chunks, cur, summaries, chunk_errors, result, chunked>>
taskvars == <<tpc, tattempt, tdelay, terrs, future>>
harness == <<cin, cout, lin, lout, rpc, rtext>>
vars == <<globals, initvars, reqvars, taskvars, harness>>

InitThreads == {"prewarm", "main"}
Callers == 1..NCallers
CallerThread(c) == <<"caller1", "caller2", "caller3", "caller4">>[c]
TaskThread(i) == <<"task1", "task2", "task3", "task4", "task5">>[i]

\* The documents the main loop may read: raw and trimmed character counts
\* and the sentence list of the trimmed text.
NoText == [raw |-> 0, trimmed |-> 0, sentences |-> <<>>]
Texts ==
    { [raw |-> 0,    trimmed |-> 0,    sentences |-> <<>>],
      [raw |-> 3,    trimmed |-> 0,    sentences |-> <<0>>],
      [raw |-> 40,   trimmed |-> 40,   sentences |-> <<12>>],
      [raw |-> 52,   trimmed |-> 49,   sentences |-> <<14>>],
      [raw |-> 50,   trimmed |-> 50,   sentences |-> <<15>>],
      [raw |-> 2400, trimmed |-> 2400, sentences |-> <<300, 0, 300>>],
      [raw |-> 4100, trimmed |-> 4098, sentences |-> <<501, 250, 250, 40>>] }

\* Outcomes of the external collaborators.
ConfigOutcomes == {"ok", "swallowed", "raise"}
SetupOutcomes == {"ok", "model_error", "pipeline_error"}
\* Outcomes of the inference call of line 227: a summary text, a summary of
\* whitespace only, no summary text (line 241 then raises ValueError, which
\* stands for every exception line 247 does not retry), or an exception that
\* line 247 retries (RuntimeError; the pipeline is called without a timeout).
InferOutcomes == {"text", "blank", "empty", "RuntimeError"}
SplitOutcomes == {"ok", "tokenizer_error"}

NoResult == [success |-> FALSE, reason |-> "none", errors |-> <<>>,
             summary |-> <<>>]
Failure(reason, errors) ==
    [success |-> FALSE, reason |-> reason, errors |-> errors, summary |-> <<>>]
Success(summary) ==
    [success |-> TRUE, reason |-> "ok", errors |-> <<>>, summary |-> summary]
Pending == [kind |-> "pending", chunk |-> 0, attempt |-> 0, blank |-> FALSE,
            err |-> "none"]
Returned(i, k, blank) ==
    [kind |-> "ok", chunk |-> i, attempt |-> k, blank |-> blank, err |-> "none"]
Raised(i, k, e) ==
    [kind |-> "exc", chunk |-> i, attempt |-> k, blank |-> FALSE, err |-> e]

NChunks == Len(chunks)
Tasks == 1..NChunks

\* The state when the main loop starts: line 314 has started the pre-warm
\* thread, which is on its way to the lock of line 54.
InitProgram ==
    /\ model_lock = "free"
    /\ summarizer = 0
    /\ tokenizer = FALSE
    /\ pc = [t \in InitThreads |-> IF t = "prewarm" THEN "init_lock"
                                    ELSE "idle"]
    /\ attempt = [t \in InitThreads |-> 0]
    /\ retry_delay = [t \in InitThreads |-> init_retry_delay]
    /\ config = [t \in InitThreads |-> "unset"]
    /\ caller = "summarize"
    /\ text = NoText
    /\ chunks = <<>>
    /\ tpc = <<>>
    /\ tattempt = <<>>
    /\ tdelay = <<>>
    /\ terrs = <<>>
    /\ future = <<>>
    /\ cur = 1
    /\ summaries = <<>>
    /\ chunk_errors = <<>>
    /\ result = NoResult
    /\ setups = 0
    /\ exhausted = 0
    /\ ran = FALSE
    /\ initres = "none"
    /\ waited = FALSE
    /\ chunked = FALSE

NoChunks == [done |-> FALSE, raised |-> FALSE, chunks |-> <<>>]
NoLength == [done |-> FALSE, target_length |-> 0, min_length |-> 0]
NoCallers ==
    /\ rpc = [c \in Callers |-> "outside"]
    /\ rtext = [c \in Callers |-> NoText]

Init ==
    /\ InitProgram
    /\ cin = <<>>
    /\ cout = NoChunks
    /\ lin = 0
    /\ lout = NoLength
    /\ NoCallers

\* --------------------------------------------------- initialize_summarizer
\* `with model_lock:` (lines 54, 223) blocks until the lock is free.
CanAcquire_NoLock == TRUE
CanAcquire == model_lock = "free"

\* Line 55: setup runs when the global is None.
NeedsSetup_Always == TRUE
NeedsSetup_FailedState == summarizer = 0 /\ exhausted = 0
NeedsSetup == summarizer = 0

\* Lines 304-307: the handler around the body of summarize_text.
Escaped(e) == [success |-> FALSE, reason |-> "exception", errors |-> <<e>>,
               summary |-> <<>>]
OuterExcept_Reraise(e) == Escaped(e)
OuterExcept(e) == Failure(e, <<>>)

\* Lines 272-273: the handler around split_text_into_chunks.
ChunkExcept(e) == Failure("chunk_split_failed", <<e>>)

\* The call of initialize_summarizer by thread t ends, normally ("ok") or by
\* the raise of line 135 ("raised"), and t goes on: the pre-warm thread ends
\* (line 313); summarize_text goes on to line 265, or returns the failure.
InitReturns(t, how) ==
    /\ initres' = IF t = "main" THEN how ELSE initres
    /\ attempt' = [attempt EXCEPT ![t] = 0]
    /\ retry_delay' = [retry_delay EXCEPT ![t] = init_retry_delay]
    /\ config' = [config EXCEPT ![t] = "unset"]
    /\ IF t = "prewarm"
       THEN pc' = [pc EXCEPT ![t] = "ended"] /\ result' = result
       ELSE IF how = "ok"
       THEN /\ pc' = [pc EXCEPT ![t] = IF caller = "summarize"
                                       THEN "len_check" ELSE "split"]
            /\ result' = result
       ELSE /\ pc' = [pc EXCEPT ![t] = "returned"]
            /\ result' = IF caller = "summarize"
                         THEN OuterExcept("init_failed")
                         ELSE ChunkExcept("init_failed")

\* Lines 54-55: the lock is acquired and the global tested; when it is set
\* the with-block ends at once and the call returns.
InitAcquire(t) ==
    /\ pc[t] = "init_lock"
    /\ CanAcquire
    /\ IF NeedsSetup
       THEN /\ setups < MaxSetups
            /\ model_lock' = t
            /\ pc' = [pc EXCEPT ![t] = "init_config"]
            /\ setups' = setups + 1
            /\ ran' = (ran \/ t = "main")
            /\ UNCHANGED <<initres, result, attempt, retry_delay, config>>
       ELSE /\ model_lock' = "free"
            /\ InitReturns(t, "ok")
            /\ UNCHANGED <<setups, ran>>
    /\ UNCHANGED <<exhausted, summarizer, tokenizer, caller, waited,
                   text, chunks, cur, summaries, chunk_errors, chunked,
                   taskvars, harness>>

\* Lines 71-91: AutoConfig.from_pretrained.  "ok": config is bound (at the
\* first try, or at the retry of line 86).  "swallowed": the except of line 79
\* catches an error that is not the corrupted-cache one, and config stays
\* unbound.  "raise": the retry of line 86 raises, out of the call (line 135).
InitConfig(t, o) ==
    /\ pc[t] = "init_config"
    /\ IF o = "raise"
       THEN /\ model_lock' = "free"
            /\ InitReturns(t, "raised")
       ELSE /\ config' = [config EXCEPT ![t] = IF o = "ok" THEN "bound"
                                               ELSE "unbound"]
            /\ pc' = [pc EXCEPT ![t] = "init_attempt"]
            /\ UNCHANGED <<model_lock, initres, result, attempt, retry_delay>>
    /\ UNCHANGED <<exhausted, summarizer, tokenizer, caller, setups, ran,
                   waited, text, chunks, cur, summaries, chunk_errors,
                   chunked, taskvars, harness>>

\* Lines 96-130: one attempt of the setup loop.  With config unbound line 101
\* raises NameError before anything is loaded.  "pipeline_error": line 109
\* has set the global tokenizer when line 117 raises.
InitAttempt(t, o) ==
    /\ pc[t] = "init_attempt"
    /\ config[t] = "unbound" => o = "model_error"
    /\ IF o = "ok"
       THEN /\ tokenizer' = TRUE
            /\ summarizer' = setups
            /\ model_lock' = "free"
            /\ InitReturns(t, "ok")
            /\ UNCHANGED exhausted
       ELSE /\ tokenizer' = (tokenizer \/ o = "pipeline_error")
            /\ summarizer' = summarizer
            /\ IF attempt[t] = init_max_retries - 1
               THEN /\ model_lock' = "free"
                    /\ exhausted' = exhausted + 1
                    /\ InitReturns(t, "raised")
               ELSE /\ pc' = [pc EXCEPT ![t] = "init_sleep"]
                    /\ UNCHANGED <<model_lock, exhausted, initres, result,
                                   attempt, retry_delay, config>>
    /\ UNCHANGED <<caller, setups, ran, waited, text, chunks, cur, summaries,
                   chunk_errors, chunked, taskvars, harness>>

\* Line 130: the delay of the next sleep.
InitBackoff_Constant(d) == d
InitBackoff(d) == d * 2

\* Lines 129-130 and the next turn of the loop of line 96.
InitSleep(t) ==
    /\ pc[t] = "init_sleep"
    /\ pc' = [pc EXCEPT ![t] = "init_attempt"]
    /\ retry_delay' = [retry_delay EXCEPT ![t] = InitBackoff(@)]
    /\ attempt' = [attempt EXCEPT ![t] = @ + 1]
    /\ UNCHANGED <<globals, config, caller, setups, exhausted, ran, initres,
                   waited, reqvars, taskvars, harness>>

\* ---------------------------------------------------------- summarize_text
\* Line 258: `not text or not text.strip()`.
IsEmptyInput_NoStrip(t) == t.raw = 0
IsEmptyInput(t) == t.raw = 0 \/ t.trimmed = 0

\* Lines 265-266: the length of the stripped text against the minimum.
TooShort_RawLength(t) == t.raw < min_text_length
TooShort(t) == t.trimmed < min_text_length

\* Lines 317-328: the main loop reads a text and calls summarize_text, which
\* returns at line 259 or calls initialize_summarizer (line 262).
StartRequest(txt) ==
    /\ pc["main"] = "idle"
    /\ text' = txt
    /\ IF IsEmptyInput(txt)
       THEN /\ result' = Failure("empty_input", <<>>)
            /\ pc' = [pc EXCEPT !["main"] = "returned"]
            /\ UNCHANGED <<caller, waited>>
       ELSE /\ pc' = [pc EXCEPT !["main"] = "init_lock"]
            /\ caller' = "summarize"
            /\ waited' = (model_lock # "free")
            /\ result' = result
    /\ UNCHANGED <<globals, attempt, retry_delay, config, setups, exhausted,
                   ran, initres, chunks, cur, summaries, chunk_errors,
                   chunked, taskvars, harness>>

\* Lines 265-267.
LenCheck ==
    /\ pc["main"] = "len_check"
    /\ IF TooShort(text)
       THEN /\ result' = Failure("too_short", <<>>)
            /\ pc' = [pc EXCEPT !["main"] = "returned"]
       ELSE /\ result' = result
            /\ pc' = [pc EXCEPT !["main"] = "split"]
    /\ UNCHANGED <<globals, attempt, retry_delay, config, caller, setups,
                   exhausted, ran, initres, waited, text, chunks, cur,
                   summaries, chunk_errors, chunked, taskvars, harness>>

\* Lines 269-279: split_text_into_chunks (which calls initialize_summarizer
\* first when the tokenizer is None, lines 141-142), then the submission of
\* one task per chunk.  "tokenizer_error": the tokenizer call of line 165
\* raises, and lines 186-188 and 272-273 turn it into the failure.  The
\* bookkeeping of the finished call of initialize_summarizer (ran, initres,
\* waited) is dropped when the tasks are submitted.
Split(o) ==
    /\ pc["main"] = "split"
    /\ chunked' = TRUE
    /\ IF caller = "summarize" /\ ~tokenizer
       THEN /\ pc' = [pc EXCEPT !["main"] = "init_lock"]
            /\ caller' = "split"
            /\ waited' = (model_lock # "free")
            /\ UNCHANGED <<result, chunks, cur, taskvars, ran, initres>>
       ELSE LET r == split_text_into_chunks(text.sentences)
                n == Len(r.chunks)
            IN  /\ caller' = caller
                /\ IF o = "tokenizer_error" \/ r.raised
                   THEN /\ result' = ChunkExcept(IF o = "tokenizer_error"
                                                 THEN o ELSE "ValueError")
                        /\ pc' = [pc EXCEPT !["main"] = "returned"]
                        /\ UNCHANGED <<chunks, cur, taskvars, ran, initres,
                                       waited>>
                   ELSE /\ chunks' = r.chunks
                        /\ tpc' = [i \in 1..n |-> "queued"]
                        /\ tattempt' = [i \in 1..n |-> 0]
                        /\ tdelay' = [i \in 1..n |-> chunk_retry_delay]
                        /\ terrs' = [i \in 1..n |-> <<>>]
                        /\ future' = [i \in 1..n |-> Pending]
                        /\ cur' = 1
                        /\ pc' = [pc EXCEPT !["main"] = "collect"]
                        /\ result' = result
                        /\ ran' = FALSE
                        /\ initres' = "none"
                        /\ waited' = FALSE
    /\ UNCHANGED <<globals, attempt, retry_delay, config, setups, exhausted,
                   text, summaries, chunk_errors, harness>>

\* ----------------------------------------------------------- process_chunk
Running(i) == tpc[i] \in {"ready", "infer", "sleep"}

\* Line 247: the exceptions a failed attempt is retried for.
Retryable == {"TimeoutError", "RuntimeError"}

\* Lines 244-254: what the attempt's handler does with exception e.
AttemptHandler_RetryOnce(e, k) ==
    IF k >= 1 THEN "raise" ELSE IF e \in Retryable THEN "retry" ELSE "raise"
AttemptHandler_RetryAll(e, k) ==
    IF k = chunk_max_retries - 1 THEN "raise" ELSE "retry"
AttemptHandler(e, k) ==
    IF k = chunk_max_retries - 1 THEN "raise"
    ELSE IF e \in Retryable THEN "retry"
    ELSE "raise"

\* Line 252: the delay of the next sleep.
ChunkBackoff_Constant(d) == d
ChunkBackoff(d) == d * 2

\* Line 278: the pool has max_workers workers; one of them is idle.
WorkerFree_Unbounded == TRUE
WorkerFree == Cardinality({j \in Tasks : Running(j)}) < max_workers

\* Line 278-279: a worker of the pool takes the next task of the queue.  A
\* chunk joins non-blank sentences, so the blank-chunk return of lines
\* 209-211 is not taken.
TaskStart(i) ==
    /\ pc["main"] = "collect"
    /\ i \in Tasks
    /\ tpc[i] = "queued"
    /\ \A j \in 1..(i - 1) : tpc[j] # "queued"
    /\ WorkerFree
    /\ tpc' = [tpc EXCEPT ![i] = "ready"]
    /\ UNCHANGED <<globals, initvars, reqvars, tattempt, tdelay, terrs, future,
                   harness>>

\* Lines 207-223: the attempt tokenizes the chunk, plans the lengths and
\* acquires the lock.
TaskAcquire(i) ==
    /\ i \in Tasks
    /\ tpc[i] = "ready"
    /\ CanAcquire
    /\ model_lock' = TaskThread(i)
    /\ tpc' = [tpc EXCEPT ![i] = "infer"]
    /\ UNCHANGED <<summarizer, tokenizer, initvars, reqvars, tattempt, tdelay,
                   terrs, future, harness>>

\* Line 223: the with-block of the lock ends when the inference call of its
\* holder returns or raises, and releases the lock either way.
LockAfterInference_KeptOnRaise(holder, o) ==
    IF o = "RuntimeError" THEN holder ELSE "free"
LockAfterInference(holder, o) == "free"

\* Lines 227-254: the inference call ends with outcome o and the with-block
\* releases the lock.  "text"/"blank": a summary, the second whitespace-only;
\* "empty": no summary text, so line 241 raises ValueError; "RuntimeError":
\* the call raises it.
TaskInferEnd(i, o) ==
    /\ i \in Tasks
    /\ tpc[i] = "infer"
    /\ model_lock' = LockAfterInference(model_lock, o)
    /\ IF o \in {"text", "blank"}
       THEN /\ future' = [future EXCEPT
                            ![i] = Returned(i, tattempt[i] + 1, o = "blank")]
            /\ tpc' = [tpc EXCEPT ![i] = "done"]
            /\ terrs' = terrs
       ELSE LET e == IF o = "empty" THEN "ValueError" ELSE o
            IN  /\ terrs' = [terrs EXCEPT ![i] = Append(@, e)]
                /\ IF AttemptHandler(e, tattempt[i]) = "raise"
                   THEN /\ future' = [future EXCEPT
                                        ![i] = Raised(i, tattempt[i] + 1, e)]
                        /\ tpc' = [tpc EXCEPT ![i] = "done"]
                   ELSE /\ future' = future
                        /\ tpc' = [tpc EXCEPT ![i] = "sleep"]
    /\ UNCHANGED <<summarizer, tokenizer, initvars, reqvars, tattempt, tdelay,
                   harness>>

\* Lines 251-253 and the next turn of the loop of line 202.
TaskSleepEnd(i) ==
    /\ i \in Tasks
    /\ tpc[i] = "sleep"
    /\ tpc' = [tpc EXCEPT ![i] = "ready"]
    /\ tdelay' = [tdelay EXCEPT ![i] = ChunkBackoff(@)]
    /\ tattempt' = [tattempt EXCEPT ![i] = @ + 1]
    /\ UNCHANGED <<globals, initvars, reqvars, terrs, future, harness>>

\* ------------------------------------------- summarize_text: the collection
\* Line 280: the k-th turn of the loop waits for the k-th future.
FutureAt_Reversed(k) == NChunks + 1 - k
FutureAt(k) == k

\* Lines 280-292: whatever the outcome of the future of turn k (a summary,
\* an exception, a timeout), the loop goes on to the next future.
AfterOutcome_AbortOnFailure(k, kind) == IF kind = "ok" THEN k + 1 ELSE NChunks + 1
AfterOutcome(k, kind) == k + 1

\* Lines 282-284 and 289-292: the future of the turn is done; its summary is
\* kept (process_chunk returns no empty string for a chunk that is not
\* blank, so the test of line 283 passes), its exception is recorded.
Collect ==
    /\ pc["main"] = "collect"
    /\ cur <= NChunks
    /\ LET i == FutureAt(cur)
           f == future[i]
       IN  /\ f.kind # "pending"
           /\ IF f.kind = "ok"
              THEN /\ summaries' = Append(summaries,
                                          [chunk |-> f.chunk,
                                           attempt |-> f.attempt,
                                           blank |-> f.blank])
                   /\ chunk_errors' = chunk_errors
              ELSE /\ chunk_errors' = Append(chunk_errors,
                                             [chunk |-> i, err |-> f.err])
                   /\ summaries' = summaries
    /\ cur' = AfterOutcome(cur, future[FutureAt(cur)].kind)
    /\ UNCHANGED <<globals, initvars, text, chunks, result, chunked,
                   taskvars, harness>>

\* Lines 282 and 285-292: the wait of future.result(timeout=90) ends before
\* the future is done.  The task goes on running.
CollectTimeout ==
    /\ pc["main"] = "collect"
    /\ cur <= NChunks
    /\ future[FutureAt(cur)].kind = "pending"
    /\ chunk_errors' = Append(chunk_errors,
                              [chunk |-> FutureAt(cur), err |-> "ResultTimeout"])
    /\ cur' = AfterOutcome(cur, "timeout")
    /\ UNCHANGED <<globals, initvars, text, chunks, summaries, result,
                   chunked, taskvars, harness>>

\* Line 299: the joined summaries are empty after strip().
JoinedIsBlank_NoStrip(ss) == ss = <<>>
JoinedIsBlank(ss) == \A k \in 1..Len(ss) : ss[k].blank

\* Lines 294-302.
aggregate_Threshold(ss, errs) ==
    IF ss = <<>> \/ Len(errs) >= 2
    THEN IF errs # <<>> THEN Failure("chunk_errors", errs)
         ELSE Failure("no_valid_summaries", <<>>)
    ELSE IF JoinedIsBlank(ss) THEN Failure("summary_empty", <<>>)
    ELSE Success(ss)
aggregate(ss, errs) ==
    IF ss = <<>>
    THEN IF errs # <<>> THEN Failure("chunk_errors", errs)
         ELSE Failure("no_valid_summaries", <<>>)
    ELSE IF JoinedIsBlank(ss) THEN Failure("summary_empty", <<>>)
    ELSE Success(ss)

\* Lines 278 and 294-302: the with-block of the executor ends when every task
\* has ended (shutdown(wait=True)); then the result is built.
Aggregate ==
    /\ pc["main"] = "collect"
    /\ cur > NChunks
    /\ \A i \in Tasks : tpc[i] = "done"
    /\ result' = aggregate(summaries, chunk_errors)
    /\ pc' = [pc EXCEPT !["main"] = "returned"]
    /\ UNCHANGED <<globals, attempt, retry_delay, config, caller, setups,
                   exhausted, ran, initres, waited, text, chunks, cur,
                   summaries, chunk_errors, chunked, taskvars, harness>>

\* Lines 328-332 and 317: the result is printed and the loop turns.
NextRequest ==
    /\ pc["main"] = "returned"
    /\ pc' = [pc EXCEPT !["main"] = "idle"]
    /\ text' = NoText
    /\ chunks' = <<>>
    /\ tpc' = <<>>
    /\ tattempt' = <<>>
    /\ tdelay' = <<>>
    /\ terrs' = <<>>
    /\ future' = <<>>
    /\ cur' = 1
    /\ summaries' = <<>>
    /\ chunk_errors' = <<>>
    /\ result' = NoResult
    /\ chunked' = FALSE
    /\ caller' = "summarize"
    /\ ran' = FALSE
    /\ initres' = "none"
    /\ waited' = FALSE
    /\ attempt' = [attempt EXCEPT !["main"] = 0]
    /\ retry_delay' = [retry_delay EXCEPT !["main"] = init_retry_delay]
    /\ config' = [config EXCEPT !["main"] = "unset"]
    /\ UNCHANGED <<globals, setups, exhausted, harness>>

Next ==
    \/ \E t \in InitThreads : InitAcquire(t)
    \/ \E t \in InitThreads, o \in ConfigOutcomes : InitConfig(t, o)
    \/ \E t \in InitThreads, o \in SetupOutcomes : InitAttempt(t, o)
    \/ \E t \in InitThreads : InitSleep(t)
    \/ \E txt \in Texts : StartRequest(txt)
    \/ LenCheck
    \/ \E o \in SplitOutcomes : Split(o)
    \/ \E i \in 1..NChunks : TaskStart(i)
    \/ \E i \in 1..NChunks : TaskAcquire(i)
    \/ \E i \in 1..NChunks, o \in InferOutcomes : TaskInferEnd(i, o)
    \/ \E i \in 1..NChunks : TaskSleepEnd(i)
    \/ Collect
    \/ CollectTimeout
    \/ Aggregate
    \/ NextRequest

Spec == Init /\ [][Next]_vars

\* ------------------------------------- split_text_into_chunks on its own
\* Token counts of the sentences given to the chunker: a blank sentence, and
\* lengths below, at and above the budget of line 150.
SentenceToks == {0, 1, 200, 300, 500, 501}

RECURSIVE SeqsUpTo(_, _)
SeqsUpTo(S, n) ==
    IF n = 0 THEN {<<>>}
    ELSE LET shorter == SeqsUpTo(S, n - 1)
         IN  shorter \cup {Append(q, x) : q \in {r \in shorter : Len(r) = n - 1},
                                          x \in S}

InitChunker ==
    /\ InitProgram
    /\ cin \in SeqsUpTo(SentenceToks, MaxSentences)
    /\ cout = NoChunks
    /\ lin = 0
    /\ lout = NoLength
    /\ NoCallers

RunChunker ==
    /\ ~cout.done
    /\ LET r == split_text_into_chunks(cin)
       IN  cout' = [done |-> TRUE, raised |-> r.raised, chunks |-> r.chunks]
    /\ UNCHANGED <<globals, initvars, reqvars, taskvars, cin, lin, lout, rpc,
                   rtext>>

NextChunker == RunChunker

SpecChunker == InitChunker /\ [][NextChunker]_vars

\* ----------------------------------- calculate_summary_length on its own
InitLength ==
    /\ InitProgram
    /\ cin = <<>>
    /\ cout = NoChunks
    /\ lin \in 1..MaxTokenLen
    /\ lout = NoLength
    /\ NoCallers

RunLength ==
    /\ ~lout.done
    /\ LET r == calculate_summary_length(lin)
       IN  lout' = [done |-> TRUE, target_length |-> r.target_length,
                    min_length |-> r.min_length]
    /\ UNCHANGED <<globals, initvars, reqvars, taskvars, cin, cout, lin, rpc,
                   rtext>>

NextLength == RunLength

SpecLength == InitLength /\ [][NextLength]_vars


\* ------------------------------- summarize_text called by several threads
\* Outcomes of lines 269-302 of one call: the chunking, the tasks and the
\* aggregation end in a Success, in a Failure, or in an exception that the
\* handler of lines 304-307 turns into a Failure.
WorkOutcomes == {"success", "failure", "exception"}

InitCallers ==
    /\ InitProgram
    /\ cin = <<>>
    /\ cout = NoChunks
    /\ lin = 0
    /\ lout = NoLength
    /\ NoCallers

\* Lines 256-262: the call begins; nothing is acquired or awaited before the
\* test of line 258 and the call of initialize_summarizer.
CallerEnter(c, txt) ==
    /\ rpc[c] = "outside"
    /\ rtext' = [rtext EXCEPT ![c] = txt]
    /\ rpc' = [rpc EXCEPT ![c] = IF IsEmptyInput(txt) THEN "returned"
                                 ELSE "init_lock"]
    /\ UNCHANGED <<globals, initvars, reqvars, taskvars, cin, cout, lin, lout>>

\* Lines 54-55 in the call of line 262.
CallerInitAcquire(c) ==
    /\ rpc[c] = "init_lock"
    /\ CanAcquire
    /\ IF NeedsSetup
       THEN /\ model_lock' = CallerThread(c)
            /\ rpc' = [rpc EXCEPT ![c] = "setup"]
       ELSE /\ model_lock' = "free"
            /\ rpc' = [rpc EXCEPT ![c] = "len_check"]
    /\ UNCHANGED <<summarizer, tokenizer, initvars, reqvars, taskvars, cin,
                   cout, lin, lout, rtext>>

\* Lines 56-135: the setup run of the call ends, the resource set ("ok") or
\* the exception raised into the handler of lines 304-307.
CallerSetupEnd(c, o) ==
    /\ rpc[c] = "setup"
    /\ model_lock' = "free"
    /\ IF o = "ok"
       THEN /\ summarizer' = 1
            /\ tokenizer' = TRUE
            /\ rpc' = [rpc EXCEPT ![c] = "len_check"]
       ELSE /\ tokenizer' = (tokenizer \/ o = "pipeline_error")
            /\ summarizer' = summarizer
            /\ rpc' = [rpc EXCEPT ![c] = "returned"]
    /\ UNCHANGED <<initvars, reqvars, taskvars, cin, cout, lin, lout, rtext>>

\* Lines 265-267.
CallerLenCheck(c) ==
    /\ rpc[c] = "len_check"
    /\ rpc' = [rpc EXCEPT ![c] = IF TooShort(rtext[c]) THEN "returned"
                                 ELSE "working"]
    /\ UNCHANGED <<globals, initvars, reqvars, taskvars, cin, cout, lin, lout,
                   rtext>>

\* Lines 269-307: the rest of the call, to its return.
CallerWork(c, o) ==
    /\ rpc[c] = "working"
    /\ rpc' = [rpc EXCEPT ![c] = "returned"]
    /\ UNCHANGED <<globals, initvars, reqvars, taskvars, cin, cout, lin, lout,
                   rtext>>

\* The caller has its result and may call again.
CallerExit(c) ==
    /\ rpc[c] = "returned"
    /\ rpc' = [rpc EXCEPT ![c] = "outside"]
    /\ rtext' = [rtext EXCEPT ![c] = NoText]
    /\ UNCHANGED <<globals, initvars, reqvars, taskvars, cin, cout, lin, lout>>

NextCallers ==
    \/ \E c \in Callers, txt \in Texts : CallerEnter(c, txt)
    \/ \E c \in Callers : CallerInitAcquire(c)
    \/ \E c \in Callers, o \in SetupOutcomes : CallerSetupEnd(c, o)
    \/ \E c \in Callers : CallerLenCheck(c)
    \/ \E c \in Callers, o \in WorkOutcomes : CallerWork(c, o)
    \/ \E c \in Callers : CallerExit(c)

SpecCallers == InitCallers /\ [][NextCallers]_vars


\* ================================================================= claims
SetupStates == {"init_config", "init_attempt", "init_sleep"}
InSetup(t) == pc[t] \in SetupStates
AtReturn == pc["main"] = "returned"
\* The request went through the collection of lines 276-302.
Aggregated == AtReturn /\ chunks # <<>>
\* The chunks whose future gave an exception or timed out (lines 285-292).
FailedChunks == {chunk_errors[k].chunk : k \in 1..Len(chunk_errors)}
TimedOutChunks ==
    {chunk_errors[k].chunk :
        k \in {j \in 1..Len(chunk_errors) : chunk_errors[j].err = "ResultTimeout"}}

\* C1: at most one inference call is in progress at any instant, and the
\* task that runs it holds model_lock, whatever the interleaving of the chunk
\* tasks and of the calls of initialize_summarizer.
C1_OneInferenceAtATime ==
    /\ Cardinality({i \in Tasks : tpc[i] = "infer"}) <= 1
    /\ \A i \in Tasks : tpc[i] = "infer" => model_lock = TaskThread(i)
    /\ \A t \in InitThreads : InSetup(t) => \A i \in Tasks : tpc[i] # "infer"

\* C1 witness: a task runs the inference while another task, past its
\* tokenization, is held at the lock and the third has not finished either.
C1_Witness ==
    \E i, j \in Tasks : i # j /\ tpc[i] = "infer" /\ tpc[j] = "ready"

\* C2 as claimed: two or more permanently failed chunks (exception after the
\* retries, or timeout) make the request a Failure.
C2_Claimed_ThresholdFails ==
    (Aggregated /\ Cardinality(FailedChunks) >= 2) => ~result.success

\* C2 as amended: the request that reached the collection is a Success
\* exactly when some chunk gave a summary that is not blank, whatever the
\* number of failed chunks; when every chunk failed it is the Failure that
\* carries the chunk errors.
C2_FailureOnlyWithoutSummary ==
    Aggregated =>
        /\ result.success <=> \E k \in 1..Len(summaries) : ~summaries[k].blank
        /\ Cardinality(FailedChunks) = NChunks =>
               /\ ~result.success
               /\ result.reason = "chunk_errors"
               /\ result.errors = chunk_errors

\* C2 witness: a Success returned although two chunks failed.
C2_Witness ==
    Aggregated /\ result.success /\ Cardinality(FailedChunks) >= 2

\* C3: the summary of a Success holds exactly the summaries of the chunks
\* whose future gave one to the collecting loop, each as its future holds
\* it, in increasing chunk index.
C3_SummaryInChunkOrder ==
    (AtReturn /\ result.success) =>
        LET got == {i \in Tasks : future[i].kind = "ok" /\ i \notin TimedOutChunks}
            out == result.summary
        IN  /\ Len(out) = Cardinality(got)
            /\ \A k \in 1..Len(out) :
                   /\ out[k].chunk \in got
                   /\ out[k].attempt = future[out[k].chunk].attempt
                   /\ out[k].blank = future[out[k].chunk].blank
            /\ \A k \in 1..(Len(out) - 1) : out[k].chunk < out[k + 1].chunk

\* C3 witness: a Success of three summaries in which the first chunk needed
\* its third attempt (two backoff sleeps) and the last chunk its first only.
C3_Witness ==
    /\ AtReturn /\ result.success
    /\ Len(result.summary) = 3
    /\ result.summary[1].attempt = 3
    /\ result.summary[3].attempt = 1

\* C4: summarize_text ends with exactly one result, a Success or a Failure
\* with a reason; no exception leaves it, and before it ends there is no
\* result.
FailureReasons == {"empty_input", "init_failed", "too_short",
                   "chunk_split_failed", "chunk_errors", "no_valid_summaries",
                   "summary_empty"}
C4_AlwaysOneResult ==
    /\ AtReturn =>
           /\ result # NoResult
           /\ result.reason # "exception"
           /\ result.success <=> result.reason = "ok"
           /\ ~result.success => result.reason \in FailureReasons
    /\ ~AtReturn => result = NoResult

\* C4 witness: the three failing setup attempts of the request's own call of
\* initialize_summarizer end as a Failure result.
C4_Witness ==
    AtReturn /\ result.reason = "init_failed" /\ ran /\ exhausted >= 1

\* C5 as claimed: of the callers that meet at the lock only one performs the
\* setup, so a caller that found the lock held by a thread in setup never
\* runs the setup itself.
C5_Claimed_OneSetupOnly == ~(waited /\ ran)

\* C5 as amended: at most one thread is in setup at a time, it holds the
\* lock and the resource is None then (a caller that waited runs the setup
\* itself only when it still finds None, the earlier setup having failed);
\* and once the resource is set no setup run has begun since the run that
\* built it, so it is never replaced.
C5_OneSetupAtATime ==
    /\ Cardinality({t \in InitThreads : InSetup(t)}) <= 1
    /\ \A t \in InitThreads : InSetup(t) => model_lock = t /\ summarizer = 0
    /\ summarizer # 0 => summarizer = setups
    /\ (initres = "ok" /\ ~ran) => summarizer # 0

\* C5 witness: the request's call found the lock held by the pre-warm thread
\* in setup, waited, and returned without running the setup: the resource is
\* the one the pre-warm thread built.
C5_Witness ==
    waited /\ initres = "ok" /\ ~ran /\ summarizer = 1 /\ setups = 1

\* C6 as claimed: once a setup run has used up its three attempts the
\* resource is never set and no thread runs the setup again.
C6_Claimed_FailedForever ==
    exhausted >= 1 =>
        /\ summarizer = 0
        /\ \A t \in InitThreads : ~InSetup(t)

\* C6 as amended: a setup run that uses up its attempts fails its own call
\* only.  A call fails only after it has run the setup itself, with a fresh
\* budget (attempt 0, delay 5), and a call that returns normally leaves the
\* resource set, also after an earlier run was exhausted.
C6_EachCallRunsSetupAgain ==
    /\ initres = "raised" => ran
    /\ initres = "ok" => summarizer # 0
    /\ \A t \in InitThreads :
           pc[t] = "init_config" =>
               attempt[t] = 0 /\ retry_delay[t] = init_retry_delay
    /\ (AtReturn /\ result.reason = "init_failed") => initres = "raised"

\* C6 witness: after an exhausted run, the request's call ran the setup again
\* and the resource is set.
C6_Witness ==
    exhausted >= 1 /\ initres = "ok" /\ ran /\ summarizer # 0

\* C7: a retried exception of an attempt before the last never ends the
\* task; when an attempt succeeds, the earlier ones having failed with
\* retried exceptions only, the future holds that attempt's text, and no
\* exception of the chunk is among the request's errors.
C7_RetriedErrorsStayLocal ==
    \A i \in Tasks :
        /\ future[i].kind = "exc" =>
               \/ future[i].err \notin Retryable
               \/ future[i].attempt = chunk_max_retries
        /\ future[i].kind = "ok" =>
               /\ future[i].attempt = Len(terrs[i]) + 1
               /\ \A k \in 1..Len(terrs[i]) : terrs[i][k] \in Retryable
               /\ \A k \in 1..Len(chunk_errors) :
                      chunk_errors[k].chunk = i =>
                          chunk_errors[k].err = "ResultTimeout"
               /\ \A k \in 1..Len(summaries) :
                      summaries[k].chunk = i =>
                          summaries[k].attempt = future[i].attempt

\* C7 witness: a request returned Success with the text of a chunk's third
\* attempt, after two attempts that raised RuntimeError, and no error.
C7_Witness ==
    /\ AtReturn /\ result.success /\ chunk_errors = <<>>
    /\ \E i \in Tasks :
           /\ terrs[i] = <<"RuntimeError", "RuntimeError">>
           /\ future[i].kind = "ok"
           /\ \E k \in 1..Len(result.summary) :
                  result.summary[k] = [chunk |-> i, attempt |-> 3,
                                       blank |-> FALSE]

\* C8 as claimed (for a text that is not empty): a trimmed text of fewer
\* than 50 characters gets the too-short Failure, and the chunker is not
\* invoked, whatever the state of the resource.
C8_Claimed_TooShortAlways ==
    (AtReturn /\ ~IsEmptyInput(text) /\ text.trimmed < min_text_length) =>
        result.reason = "too_short" /\ ~chunked

\* C8 as amended: such a text gets a Failure and the chunker is not invoked;
\* the Failure is the too-short one when the text is not empty and the call
\* of initialize_summarizer before the length test returned normally, the
\* empty-input one for an empty text, the initialization error otherwise.
C8_ShortTextNeverChunked ==
    (AtReturn /\ text.trimmed < min_text_length) =>
        /\ ~result.success
        /\ ~chunked
        /\ chunks = <<>>
        /\ result.reason = IF IsEmptyInput(text) THEN "empty_input"
                           ELSE IF initres = "ok" THEN "too_short"
                           ELSE "init_failed"

\* C8 witness: a text of 52 characters, 49 after trimming, got the too-short
\* Failure.
C8_Witness ==
    /\ AtReturn /\ result.reason = "too_short" /\ ~chunked
    /\ text.raw >= min_text_length /\ text.trimmed < min_text_length

\* C9: every returned chunk is non-empty, holds non-blank sentences only,
\* and the token lengths of its sentences sum to at most max_tokens unless
\* it is one sentence that alone exceeds max_tokens.
C9_ChunksWithinBudget ==
    (cout.done /\ ~cout.raised) =>
        /\ cout.chunks # <<>>
        /\ \A k \in 1..Len(cout.chunks) :
               LET c == cout.chunks[k]
               IN  /\ c # <<>>
                   /\ \A j \in 1..Len(c) : ~IsBlank(cin[c[j]])
                   /\ \/ SumToks(cin, c) <= max_tokens
                      \/ Len(c) = 1 /\ cin[c[1]] > max_tokens

\* C9 witness: the chunker returned a chunk of several sentences filled to
\* the budget exactly, and a chunk of one oversized sentence.
C9_Witness ==
    /\ cout.done /\ ~cout.raised
    /\ \E k \in 1..Len(cout.chunks) :
           Len(cout.chunks[k]) >= 2 /\ SumToks(cin, cout.chunks[k]) = max_tokens
    /\ \E k \in 1..Len(cout.chunks) :
           Len(cout.chunks[k]) = 1 /\ SumToks(cin, cout.chunks[k]) > max_tokens

\* C10 as claimed: for a chunk of n >= 1 tokens, min_length <= target_length,
\* both are positive, and target_length < n.
C10_Claimed_LengthInvariant ==
    lout.done =>
        /\ lout.min_length <= lout.target_length
        /\ lout.min_length > 0
        /\ lout.target_length > 0
        /\ lout.target_length < lin

\* The integers nearest to num/den (both, when num/den lies half-way).
RoundNearest(num, den) ==
    {q \in {num \div den, num \div den + 1} :
        2 * (IF den * q >= num THEN den * q - num ELSE num - den * q) <= den}
Clamp(x, lo, hi) == Max(lo, Min(hi, x))

\* C11 as claimed: the lengths returned for n tokens are those of the
\* reference formula, target = min(n - 1, clamp(round(0.35 n), 30, 250)) and
\* min = max(20, round(0.6 target)), round being round-to-nearest (either
\* neighbour accepted at a tie).
C11_Claimed_RoundToNearest ==
    lout.done =>
        /\ lout.target_length \in
               {Min(lin - 1, Clamp(r, 30, 250)) : r \in RoundNearest(35 * lin, 100)}
        /\ lout.min_length \in
               {Max(20, r) : r \in RoundNearest(6 * lout.target_length, 10)}

\* C11 as amended: the formula holds with truncation in place of rounding:
\* target = min(n - 1, clamp(floor(0.35 n), 30, 250)), one less than that
\* floor (before the clamp) at the n where the double product n * 0.35 falls
\* just below an integer, and min = max(20, floor(0.6 target)).
C11_TruncatedFormula ==
    lout.done =>
        LET f == (35 * lin) \div 100
            t == IF (35 * lin) % 100 = 0 /\ lin \in FloatLow035 THEN f - 1 ELSE f
        IN  /\ lout.target_length = Min(lin - 1, Clamp(t, 30, 250))
            /\ lout.min_length = Max(20, (6 * lout.target_length) \div 10)
            /\ 100 * f <= 35 * lin /\ 35 * lin < 100 * (f + 1)

\* C11 witness: a length whose 0.35 share has a fraction above one half, so
\* that truncation and rounding differ, planned between the clamps.
C11_Witness ==
    /\ lout.done
    /\ (35 * lin) % 100 > 50
    /\ 30 < lout.target_length /\ lout.target_length < 250
    /\ lout.target_length < lin - 1
    /\ lout.min_length > 20

InFlight == {c \in Callers : rpc[c] = "working"}
\* The code sets no admission bound; the claim is taken for a bound below
\* the number of threads that call summarize_text.
maxConcurrentRequests == NCallers - 1

\* C13 as claimed: with several threads calling summarize_text, the number
\* of calls past admission that have not exited never exceeds
\* maxConcurrentRequests, also after earlier calls have exited.
C13_Claimed_AdmissionBound ==
    Cardinality(InFlight) <= maxConcurrentRequests

\* C14 as claimed: a wait for a chunk's outcome that exceeds the timeout of
\* line 282 is one failed attempt of the chunk, retried while attempts
\* remain; so a chunk is among the request's errors for a timeout only when
\* its task, when it runs, is in its final attempt.
C14_Claimed_TimeoutIsRetried ==
    \A i \in TimedOutChunks :
        Running(i) => tattempt[i] = chunk_max_retries - 1

\* C15 as claimed: an attempt whose inference output is empty is retried
\* while attempts remain, so a chunk ends with the empty-summary error only
\* at its last attempt.
C15_Claimed_EmptyIsRetried ==
    \A i \in Tasks :
        (future[i].kind = "exc" /\ future[i].err = "ValueError") =>
            future[i].attempt = chunk_max_retries

\* C15 as amended: an attempt whose inference output is empty ends the
\* chunk at once with the empty-summary error, at whichever attempt: no
\* sleep and no further attempt follow it.  A chunk never ends in Success
\* after, or with, an empty output.
C15_EmptyEndsChunk ==
    \A i \in Tasks :
        /\ \A k \in 1..Len(terrs[i]) :
               terrs[i][k] = "ValueError" =>
                   /\ k = Len(terrs[i])
                   /\ tpc[i] = "done"
                   /\ future[i] = Raised(i, k, "ValueError")
                   /\ tattempt[i] = k - 1
        /\ future[i].kind = "ok" =>
               \A k \in 1..Len(terrs[i]) : terrs[i][k] # "ValueError"

\* C15 witness: a chunk whose first attempt was retried after a RuntimeError
\* gave an empty output at its second attempt; the request returned with
\* that error for the chunk, and no third attempt was made.
C15_Witness ==
    /\ AtReturn
    /\ \E i \in Tasks :
           /\ terrs[i] = <<"RuntimeError", "ValueError">>
           /\ future[i] = Raised(i, 2, "ValueError")
           /\ \E k \in 1..Len(chunk_errors) :
                  chunk_errors[k] = [chunk |-> i, err |-> "ValueError"]

\* C16 as claimed: a request rejected by the input validation (empty,
\* whitespace-only or too-short text) returns its Failure without having
\* called initialize_summarizer (no lock taken, no wait, no setup run) and
\* without a task submitted.
C16_Claimed_ValidationTouchesNothing ==
    (AtReturn /\ result.reason \in {"empty_input", "too_short"}) =>
        /\ initres = "none" /\ ~ran /\ ~waited
        /\ tpc = <<>> /\ ~chunked

\* C16 as amended: that holds of the empty or whitespace-only text.  The
\* too-short Failure is returned after the call of initialize_summarizer has
\* returned normally: the lock was taken and released, the resource is set
\* (by this call's own setup run or an earlier one); no chunking was done
\* and no task submitted.  The request holds no lock when it returns.
C16_OnlyEmptyInputTouchesNothing ==
    AtReturn =>
        /\ text.trimmed = 0 =>
               /\ result.reason = "empty_input"
               /\ initres = "none" /\ ~ran /\ ~waited
               /\ tpc = <<>> /\ ~chunked
        /\ result.reason = "too_short" =>
               /\ text.trimmed > 0
               /\ initres = "ok" /\ summarizer # 0
               /\ tpc = <<>> /\ ~chunked
        /\ model_lock # "main"

\* C16 witness: a too-short request waited at the lock for the pre-warm
\* thread, whose setup failed, ran the setup itself and was then rejected.
C16_Witness ==
    AtReturn /\ result.reason = "too_short" /\ waited /\ ran /\ summarizer = 2

\* The chunks whose outcome the collecting loop has taken, in the order taken.
CollectedChunks ==
    [k \in 1..Len(summaries) |-> summaries[k].chunk] \o
    [k \in 1..Len(chunk_errors) |-> chunk_errors[k].chunk]

\* C17: a chunk that fails for good (exception of its last attempt, or
\* timeout of the wait) stops no sibling: while the outcomes are collected
\* every chunk before the loop's position has exactly one outcome taken, and
\* when the request returns every chunk's task has run to its end and every
\* chunk has exactly one outcome among the summaries and the errors.
C17_SiblingsAllRunAndCollected ==
    (pc["main"] \in {"collect", "returned"} /\ chunks # <<>>) =>
        /\ cur <= NChunks + 1
        /\ \A i \in Tasks :
               Cardinality({k \in 1..Len(CollectedChunks) :
                               CollectedChunks[k] = i})
                   = IF i < cur THEN 1 ELSE 0
        /\ AtReturn =>
               /\ cur = NChunks + 1
               /\ \A i \in Tasks : tpc[i] = "done" /\ future[i].kind # "pending"

\* C17 witness: of three chunks the first failed at its third attempt and
\* the wait for the second timed out; the third ran, and its summary is the
\* request's Success.
C17_Witness ==
    /\ AtReturn /\ result.success /\ NChunks = 3
    /\ future[1] = Raised(1, 3, "RuntimeError")
    /\ chunk_errors = <<[chunk |-> 1, err |-> "RuntimeError"],
                        [chunk |-> 2, err |-> "ResultTimeout"]>>
    /\ Len(summaries) = 1 /\ summaries[1].chunk = 3

RECURSIVE Pow2(_)
Pow2(k) == IF k = 0 THEN 1 ELSE 2 * Pow2(k - 1)

\* C18 as claimed: at most 3 attempts per chunk; a failed attempt before the
\* third, of any failure kind, is followed by a sleep (10, then 20) and the
\* next attempt, so a task ends with an exception only after 3 failed
\* attempts; the third failure is followed by no sleep and no attempt.
C18_Claimed_AnyFailureRetried ==
    \A i \in Tasks :
        /\ Len(terrs[i]) <= chunk_max_retries
        /\ (tpc[i] = "done" /\ Len(terrs[i]) >= 1
               /\ Len(terrs[i]) < chunk_max_retries) => future[i].kind = "ok"
        /\ tpc[i] = "sleep" => tattempt[i] < chunk_max_retries - 1

\* C18 as amended: at most 3 attempts per chunk; a failed attempt k < 3 that
\* raised one of the retried exceptions is followed by a sleep of
\* 10 * 2^(k-1) and then attempt k+1; a failed attempt that raised any other
\* exception, and the failure of the third attempt, are followed by no sleep
\* and no further attempt.
C18_RetriedFailuresBackOff ==
    \A i \in Tasks :
        /\ tattempt[i] \in 0..(chunk_max_retries - 1)
        /\ tdelay[i] = chunk_retry_delay * Pow2(tattempt[i])
        /\ tpc[i] \in {"queued", "ready", "infer"} => Len(terrs[i]) = tattempt[i]
        /\ tpc[i] = "sleep" =>
               /\ tattempt[i] < chunk_max_retries - 1
               /\ Len(terrs[i]) = tattempt[i] + 1
               /\ terrs[i][Len(terrs[i])] \in Retryable
        /\ future[i].kind = "exc" =>
               /\ tpc[i] = "done"
               /\ Len(terrs[i]) = tattempt[i] + 1
               /\ future[i].attempt = tattempt[i] + 1
               /\ \/ future[i].attempt = chunk_max_retries
                  \/ future[i].err \notin Retryable
        /\ \A k \in 1..(Len(terrs[i]) - 1) : terrs[i][k] \in Retryable

\* C18 witness: a task sleeps for 20 after its second failed attempt, both
\* attempts having raised RuntimeError.
C18_Witness ==
    \E i \in Tasks :
        /\ tpc[i] = "sleep" /\ tattempt[i] = 1 /\ tdelay[i] = 20
        /\ terrs[i] = <<"RuntimeError", "RuntimeError">>

\* C19: one run of the setup makes at most 3 attempts; after failed attempt
\* k < 3 it sleeps 5 * 2^(k-1) (5, then 10) before the next attempt; it
\* stops at the first attempt that succeeds; and after the third failure it
\* raises without sleeping again.
C19_InitRetriesBackOff ==
    /\ [](\A t \in InitThreads :
              /\ attempt[t] \in 0..(init_max_retries - 1)
              /\ InSetup(t) =>
                     /\ retry_delay[t] = init_retry_delay * Pow2(attempt[t])
                     /\ summarizer = 0
              /\ pc[t] = "init_sleep" => attempt[t] < init_max_retries - 1)
    /\ [][\A t \in InitThreads :
              /\ (pc[t] = "init_attempt" /\ pc'[t] = "init_sleep") =>
                     /\ summarizer' = 0
                     /\ attempt[t] < init_max_retries - 1
              /\ (pc[t] = "init_attempt" /\ pc'[t] \notin SetupStates) =>
                     \/ summarizer' # 0 /\ summarizer = 0
                     \/ /\ summarizer' = 0
                        /\ attempt[t] = init_max_retries - 1
                        /\ exhausted' = exhausted + 1
              /\ (pc[t] = "init_sleep" /\ pc'[t] # "init_sleep") =>
                     /\ pc'[t] = "init_attempt"
                     /\ attempt'[t] = attempt[t] + 1]_vars

\* C19 witness: a setup run sleeps for 10 after its second failed attempt.
C19_Witness ==
    \E t \in InitThreads :
        pc[t] = "init_sleep" /\ attempt[t] = 1 /\ retry_delay[t] = 10

\* C20 as claimed: the aggregation never waits for an abandoned task: when
\* the loop has taken an outcome (a result, an exception or a timeout) for
\* every chunk and the only tasks not ended are inside an inference call,
\* which may never return, summarize_text can return its result.
C20_Claimed_ReturnsWithoutWaiting ==
    (/\ pc["main"] = "collect"
     /\ cur > NChunks
     /\ \A i \in Tasks : tpc[i] \in {"done", "infer"}) => ENABLED Aggregate

RECURSIVE Flatten(_)
\* The sentence positions of the chunks, read in order.
Flatten(cs) == IF cs = <<>> THEN <<>> ELSE Head(cs) \o Flatten(Tail(cs))

RECURSIVE NonBlankFrom(_, _)
\* The positions k, k+1, ... of the sentences of s that hold some text.
NonBlankFrom(s, k) ==
    IF k > Len(s) THEN <<>>
    ELSE IF s[k] = 0 THEN NonBlankFrom(s, k + 1)
    ELSE <<k>> \o NonBlankFrom(s, k + 1)

\* C21: for a text that is not blank, the chunks read in order hold every
\* non-blank sentence exactly once and in the original order, each whole in
\* one chunk; a sentence longer than max_tokens is a chunk of its own.  An
\* error is raised only for a text without a non-blank sentence.
C21_EverySentenceOnceInOrder ==
    cout.done =>
        /\ cout.raised <=> NonBlankFrom(cin, 1) = <<>>
        /\ ~cout.raised =>
               /\ Flatten(cout.chunks) = NonBlankFrom(cin, 1)
               /\ \A k \in 1..Len(cout.chunks) :
                      \A j \in 1..Len(cout.chunks[k]) :
                          cin[cout.chunks[k][j]] > max_tokens =>
                              Len(cout.chunks[k]) = 1

\* C21 witness: a text of an oversized sentence, a blank one and two that
\* fill a chunk together gives the oversized sentence alone and then the
\* chunk of the two.
C21_Witness ==
    /\ cout.done /\ ~cout.raised
    /\ Len(cin) = 4 /\ cin[1] > max_tokens /\ cin[2] = 0
    /\ cout.chunks = <<<<1>>, <<3, 4>>>>

\* C22: within one request at most max_workers chunk tasks are between the
\* start of process_chunk and its return or raise (the backoff sleeps
\* included), however many chunks there are; a task beyond that waits in
\* the queue of the pool.
C22_AtMostMaxWorkersRunning ==
    /\ Cardinality({i \in Tasks : tpc[i] \in {"ready", "infer", "sleep"}})
           <= max_workers
    /\ \A i \in Tasks :
           tpc[i] # "queued" => \A j \in 1..(i - 1) : tpc[j] # "queued"

\* C22 witness: of three chunks one is in inference, one sleeps in backoff
\* and the third is still queued.
C22_Witness ==
    /\ NChunks = 3
    /\ \E i, j, k \in Tasks :
           tpc[i] = "infer" /\ tpc[j] = "sleep" /\ tpc[k] = "queued"

\* C23 as claimed: every Failure returned after the chunk tasks were
\* submitted carries the error of every chunk that failed or timed out, in
\* chunk-index order.
C23_Claimed_FailureCarriesAllErrors ==
    (Aggregated /\ ~result.success) =>
        /\ result.errors = chunk_errors
        /\ \A k \in 1..(Len(chunk_errors) - 1) :
               chunk_errors[k].chunk < chunk_errors[k + 1].chunk

\* C24: a chunk task holds model_lock only while its inference call runs:
\* the lock is released when the call returns or raises, and no task that
\* waits in the queue, prepares an attempt, sleeps in backoff or has ended
\* holds it; the holder is otherwise a thread in setup, or nobody.
C24_LockOnlyDuringInference ==
    /\ \A i \in Tasks : model_lock = TaskThread(i) <=> tpc[i] = "infer"
    /\ model_lock \in {"free"} \cup {t \in InitThreads : InSetup(t)}
                           \cup {TaskThread(i) : i \in Tasks}

\* C24 witness: a task sleeps in backoff after a failed attempt while a
\* sibling, having acquired the lock, runs its inference call.
C24_Witness ==
    \E i, j \in Tasks :
        /\ tpc[i] = "sleep" /\ terrs[i] # <<>>
        /\ tpc[j] = "infer" /\ model_lock = TaskThread(j)

====
